---- MODULE Spec2Model ----
(***************************************************************************)
(* Provider detection of the langspec gateway.                             *)
(*                                                                         *)
(* A request is a method, a path and a header map.  Header values are raw  *)
(* byte strings; RequestView reads them through to_str, which yields       *)
(* nothing for a value holding a byte outside visible ASCII.  An Option    *)
(* is modelled as a set with at most one element: {} is None, {v} is       *)
(* Some(v).  ProviderRegistry::detect is modelled step by step (override   *)
(* check, one step per provider of the chain, final resolution); the       *)
(* matchers and the accessors of RequestView are operators on the request. *)
(* steps counts the steps the call has taken.                              *)
(***************************************************************************)
EXTENDS Integers, Sequences, FiniteSets, TLC

VARIABLES req, pc, idx, all_results, best_result, ret, log, steps,
          calls, returned,
          session, upstream_request, handler_pc, ctx, upstreams,
          current_upstream, selected,
          threads, selection_log, returned_count

\* one call of ProviderRegistry::detect: its argument, position and locals
detect_vars == <<req, pc, idx, all_results, best_result, ret, log, steps>>

\* a sequence of calls on one registry: their number and what they returned
calls_vars == <<calls, returned>>

\* the proxy: per handler the downstream request, the upstream request, the
\* position and the context; the upstream list, its counter and the peers
proxy_vars ==
    <<session, upstream_request, handler_pc, ctx, upstreams, current_upstream,
      selected>>

\* threads that call select_upstream: per thread its position, the index it
\* computed, what it was returned and how many calls it has made; the counter
\* values observed, in the order of the fetch_add operations; per upstream how
\* often it was returned
select_vars == <<threads, selection_log, returned_count>>

vars == <<detect_vars, calls_vars, proxy_vars, select_vars>>

(***************************************************************************)
(* Strings: str::starts_with, str::ends_with, str::contains,               *)
(* str::to_lowercase and HeaderValue::to_str.                              *)
(***************************************************************************)
UpperAlpha == "ABCDEFGHIJKLMNOPQRSTUVWXYZ"

LowerAlpha == "abcdefghijklmnopqrstuvwxyz"

\* (the backquote, also visible ASCII, cannot be written in a string here; no
\* header value of the inputs holds one)
OtherVisible == "0123456789 !\"#$%&'()*+,-./:;<=>?@[\\]^_{|}~"

CharAt(s, i) == SubSeq(s, i, i)

CharsOf(s) == {CharAt(s, i) : i \in 1..Len(s)}

\* the bytes HeaderValue::to_str accepts (tab or 32..126)
VisibleAscii == CharsOf(UpperAlpha) \cup CharsOf(LowerAlpha) \cup CharsOf(OtherVisible) \cup {"\t"}

starts_with(s, prefix) ==
    /\ Len(prefix) <= Len(s)
    /\ SubSeq(s, 1, Len(prefix)) = prefix

ends_with(s, suffix) ==
    /\ Len(suffix) <= Len(s)
    /\ SubSeq(s, Len(s) - Len(suffix) + 1, Len(s)) = suffix

\* contains that never tries the last offset
contains_short(s, pat) ==
    \E i \in 0..(Len(s) - Len(pat) - 1) : SubSeq(s, i + 1, i + Len(pat)) = pat

contains(s, pat) ==
    \E i \in 0..(Len(s) - Len(pat)) : SubSeq(s, i + 1, i + Len(pat)) = pat

\* the lower-case letter of every upper-case ASCII letter
LowerOf ==
    [c \in CharsOf(UpperAlpha) |->
        CharAt(LowerAlpha, CHOOSE i \in 1..Len(UpperAlpha) : CharAt(UpperAlpha, i) = c)]

lower_char(c) == IF c \in DOMAIN LowerOf THEN LowerOf[c] ELSE c

\* to_lowercase that leaves the text as it is
to_lowercase_identity(s) == s

RECURSIVE to_lowercase(_)
to_lowercase(s) ==
    IF Len(s) = 0 THEN s
    ELSE lower_char(CharAt(s, 1)) \o to_lowercase(SubSeq(s, 2, Len(s)))

\* to_str that hands out the bytes whatever they are
to_str_lossy(raw) == {raw}

\* HeaderValue::to_str(): Ok(text) only when every byte is visible ASCII
to_str(raw) ==
    IF \A i \in 1..Len(raw) : CharAt(raw, i) \in VisibleAscii THEN {raw} ELSE {}

(***************************************************************************)
(* The inputs: requests.                                                   *)
(***************************************************************************)
ProviderKind == {"OpenAI", "Bedrock", "Unknown"}

Confidence == <<"Low", "Medium", "High">>

\* derived Ord of Confidence: position in declaration order
confidence_ord(c) == CHOOSE i \in 1..Len(Confidence) : Confidence[i] = c

Methods == {"POST"}

Paths ==
    {"/v1/chat/completions", "/v1/completions", "/v1/responses", "/v1/models",
     "/api/chat", "/v2/chat/completions", "/converse", "/invoke",
     "/model/claude", "/v1/chat/converse"}

HostValues ==
    {{}, {"api.openai.com"}, {"bedrock-runtime.us-east-1.amazonaws.com"},
     {"api.amazonaws.com"}, {"example.com"}, {"bedrock-é.amazonaws.com"}}

AuthorizationValues ==
    {{}, {"Bearer sk-123"}, {"AWS4-HMAC-SHA256 Credential=x"}, {"Basic abc"},
     {"Bearer é"}}

AmzDateValues == {{}, {"20231201T120000Z"}, {"é"}}

AmzSecurityTokenValues == {{}, {"token"}, {"é"}}

AmznTraceIdValues == {{}, {"Root=1-5759e988"}, {"é"}}

OpenAIOrganizationValues == {{}, {"org-123"}, {"é"}}

OverrideValues ==
    {{}, {"OpenAI"}, {"BEDROCK"}, {"unknown"}, {"invalid"}, {""}, {"openaié"}}

HeaderMaps ==
    {   ("host" :> h) @@ ("authorization" :> a) @@ ("x-amz-date" :> d)
     @@ ("x-amz-security-token" :> t) @@ ("x-amzn-trace-id" :> tr)
     @@ ("openai-organization" :> o) @@ ("x-langspec-provider" :> ov) :
        h \in HostValues, a \in AuthorizationValues, d \in AmzDateValues,
        t \in AmzSecurityTokenValues, tr \in AmznTraceIdValues,
        o \in OpenAIOrganizationValues, ov \in OverrideValues }

Requests ==
    {[method |-> m, path |-> p, headers |-> h] :
        m \in Methods, p \in Paths, h \in HeaderMaps}

(***************************************************************************)
(* RequestView (pipeline/views.rs).                                        *)
(***************************************************************************)
method(r) == r.method

path(r) == r.path

\* the keys the code passes to RequestView::header
LookupKeys ==
    {"host", "authorization", "x-amz-date", "x-amz-security-token",
     "x-amzn-trace-id", "OpenAI-Organization", "x-langspec-provider"}

\* the header map is keyed case-insensitively: a key is looked up under its
\* lower-cased name
header_name == [key \in LookupKeys |-> to_lowercase(key)]

header(r, key) ==
    LET name == header_name[key]
    IN  IF name \in DOMAIN r.headers
        THEN UNION {to_str(raw) : raw \in r.headers[name]}
        ELSE {}

host(r) == UNION {to_str(raw) : raw \in r.headers["host"]}

\* authorization that is read for POST requests only
authorization_post_only(r) ==
    IF method(r) = "POST" THEN header(r, "authorization") ELSE {}

authorization(r) == header(r, "authorization")

\* has_aws_sigv4 that looks at the Authorization scheme only
has_aws_sigv4_authorization_only(r) ==
    \E auth \in authorization(r) : starts_with(auth, "AWS4-HMAC-SHA256")

\* has_aws_sigv4 that looks at the x-amz headers only
has_aws_sigv4_headers_only(r) ==
    \/ header(r, "x-amz-date") # {}
    \/ header(r, "x-amz-security-token") # {}

has_aws_sigv4(r) ==
    \/ \E auth \in authorization(r) : starts_with(auth, "AWS4-HMAC-SHA256")
    \/ header(r, "x-amz-date") # {}
    \/ header(r, "x-amz-security-token") # {}

\* has_bearer_auth that looks for a lower-case scheme
has_bearer_auth_lowercase(r) ==
    \E auth \in authorization(r) : starts_with(auth, "bearer ")

has_bearer_auth(r) ==
    \E auth \in authorization(r) : starts_with(auth, "Bearer ")

\* host_ends_with that takes an absent host for a match
host_ends_with_or_absent(r, suffix) ==
    \A h \in host(r) : ends_with(h, suffix)

host_ends_with(r, suffix) ==
    \E h \in host(r) : ends_with(h, suffix)

(***************************************************************************)
(* DetectionResult (provider/mod.rs).                                      *)
(***************************************************************************)
high_confidence(kind, reason, signal) ==
    [kind |-> kind, confidence |-> "High", reason |-> reason, signal |-> signal]

\* medium_confidence that builds a Low result
medium_confidence_as_low(kind, reason, signal) ==
    [kind |-> kind, confidence |-> "Low", reason |-> reason, signal |-> signal]

medium_confidence(kind, reason, signal) ==
    [kind |-> kind, confidence |-> "Medium", reason |-> reason, signal |-> signal]

low_confidence(kind, reason, signal) ==
    [kind |-> kind, confidence |-> "Low", reason |-> reason, signal |-> signal]

no_match == {}

\* is_decisive that also takes Medium for decisive
is_decisive_loose(result) == result.confidence # "Low"

is_decisive(result) == result.confidence = "High"

\* is_better_than that lets an equal confidence win
is_better_or_equal(result, other) ==
    confidence_ord(result.confidence) >= confidence_ord(other.confidence)

is_better_than(result, other) ==
    confidence_ord(result.confidence) > confidence_ord(other.confidence)

(***************************************************************************)
(* OpenAIProvider::detect (provider/openai.rs).                            *)
(***************************************************************************)
\* corroborating path that forgets the /v1/ prefix
has_openai_path_no_prefix(r) ==
    \/ contains(path(r), "/chat")
    \/ contains(path(r), "/completions")
    \/ contains(path(r), "/responses")

\* openai.rs 46-49: the path that corroborates a Bearer token
has_openai_path(r) ==
    /\ starts_with(path(r), "/v1/")
    /\ \/ contains(path(r), "/chat")
       \/ contains(path(r), "/completions")
       \/ contains(path(r), "/responses")

\* path rule that forgets the /v1/ prefix
openai_path_match_no_prefix(r) ==
    \/ contains(path(r), "/chat")
    \/ contains(path(r), "/completions")
    \/ contains(path(r), "/responses")

\* openai.rs 61-65: the condition of the path rule
openai_path_match(r) ==
    /\ starts_with(path(r), "/v1/")
    /\ \/ contains(path(r), "/chat")
       \/ contains(path(r), "/completions")
       \/ contains(path(r), "/responses")

OpenAIProvider_detect(r) ==
    IF \E h \in host(r) : h = "api.openai.com"
    THEN {high_confidence("OpenAI", "api.openai.com exact match", "host")}
    ELSE
    LET has_openai_host == \E h \in host(r) : h = "api.openai.com"
    IN  IF has_bearer_auth(r) /\ (has_openai_host \/ has_openai_path(r))
        THEN {high_confidence("OpenAI", "bearer token with OpenAI context", "auth")}
        ELSE IF openai_path_match(r)
        THEN {medium_confidence("OpenAI", "/v1/ API endpoints", "path")}
        ELSE IF header(r, "OpenAI-Organization") # {}
        THEN {low_confidence("OpenAI", "OpenAI-Organization header present", "header")}
        ELSE no_match

(***************************************************************************)
(* BedrockProvider::detect (provider/bedrock.rs).                          *)
(***************************************************************************)
\* host rule that asks for one exact host name
bedrock_host_exact(r) ==
    \E h \in host(r) : h = "bedrock.amazonaws.com"

\* bedrock.rs 27-30: the condition of the host rule
bedrock_host_match(r) ==
    \E h \in host(r) : contains(h, "bedrock") /\ ends_with(h, ".amazonaws.com")

BedrockProvider_detect(r) ==
    IF bedrock_host_match(r)
    THEN {high_confidence("Bedrock", "bedrock.amazonaws.com host", "host")}
    ELSE IF has_aws_sigv4(r)
    THEN {high_confidence("Bedrock", "AWS Signature Version 4", "auth")}
    ELSE
    LET has_aws_host == host_ends_with(r, ".amazonaws.com")
        has_aws_headers ==
            \/ header(r, "x-amz-date") # {}
            \/ header(r, "x-amzn-trace-id") # {}
            \/ header(r, "x-amz-security-token") # {}
    IN  IF /\ \/ contains(path(r), "/converse")
              \/ contains(path(r), "/invoke")
              \/ contains(path(r), "/model/")
           /\ (has_aws_host \/ has_aws_headers)
        THEN LET reason ==
                    IF has_aws_host /\ has_aws_headers
                    THEN "Bedrock paths with AWS host + headers"
                    ELSE IF has_aws_host
                    THEN "Bedrock paths with AWS host"
                    ELSE "Bedrock paths with AWS headers"
             IN  {medium_confidence("Bedrock", reason, "path")}
        ELSE IF has_aws_headers /\ has_aws_host
        THEN {low_confidence("Bedrock", "AWS headers with AWS host", "header")}
        ELSE no_match

(***************************************************************************)
(* ProviderRegistry (provider/registry.rs).                                *)
(***************************************************************************)
\* the chain with the two providers swapped
PROVIDERS_swapped == <<"bedrock", "openai">>

\* the static provider chain of ProviderRegistry::new
PROVIDERS == <<"openai", "bedrock">>

\* dyn Provider dispatch: provider.detect(request_view)
provider_detect(id, r) ==
    IF id = "openai" THEN OpenAIProvider_detect(r) ELSE BedrockProvider_detect(r)

\* override check that answers Unknown for an unrecognized value
override_kind_strict(r) ==
    LET override_provider == header(r, "x-langspec-provider")
    IN  IF override_provider = {} THEN {}
        ELSE LET v == to_lowercase(CHOOSE o \in override_provider : TRUE)
             IN  IF v = "openai" THEN {"OpenAI"}
                 ELSE IF v = "bedrock" THEN {"Bedrock"}
                 ELSE {"Unknown"}

\* step 1 of detect: the explicit override; {} when detection continues
override_kind(r) ==
    LET override_provider == header(r, "x-langspec-provider")
    IN  IF override_provider = {} THEN {}
        ELSE LET v == to_lowercase(CHOOSE o \in override_provider : TRUE)
             IN  IF v = "openai" THEN {"OpenAI"}
                 ELSE IF v = "bedrock" THEN {"Bedrock"}
                 ELSE IF v = "unknown" THEN {"Unknown"}
                 ELSE {}

\* best_result that keeps the first result whatever comes later
track_best_first(best, result) ==
    IF best = {} THEN {result} ELSE best

\* best_result after one more non-decisive result
track_best(best, result) ==
    IF best = {} THEN {result}
    ELSE IF is_better_than(result, CHOOSE b \in best : TRUE) THEN {result}
    ELSE best

\* conflicts that pairs results of the same kind
conflicts_same_kind(results) ==
    {<<i, j>> \in (1..Len(results)) \X (1..Len(results)) :
        i < j /\ results[i].kind = results[j].kind}

\* the pairs of accumulated results of different kinds
conflicts(results) ==
    {<<i, j>> \in (1..Len(results)) \X (1..Len(results)) :
        i < j /\ results[i].kind # results[j].kind}

\* final resolution that does not trust a Low result
final_kind_ignore_low(best) ==
    IF best # {} /\ (CHOOSE b \in best : TRUE).confidence # "Low"
    THEN (CHOOSE b \in best : TRUE).kind ELSE "Unknown"

\* final resolution without the Unknown default
final_kind_none(best) ==
    IF best # {} THEN (CHOOSE b \in best : TRUE).kind ELSE "None"

\* the value detect returns once the provider loop has ended
final_kind(best) ==
    IF best # {} THEN (CHOOSE b \in best : TRUE).kind ELSE "Unknown"

\* chain_step that returns on the first match, whatever its confidence
chain_step_exit_on_any(r, i, results, best) ==
    LET result == provider_detect(PROVIDERS[i], r)
    IN  IF result = {}
        THEN [ret |-> {}, all_results |-> results, best_result |-> best,
              log |-> <<>>]
        ELSE [ret |-> {(CHOOSE x \in result : TRUE).kind}, all_results |-> results,
              best_result |-> best, log |-> <<"candidate", "decisive">>]

\* one iteration of the provider loop of detect, on provider number i
chain_step(r, i, results, best) ==
    LET result == provider_detect(PROVIDERS[i], r)
    IN  IF result = {}
        THEN [ret |-> {}, all_results |-> results, best_result |-> best,
              log |-> <<>>]
        ELSE LET res == CHOOSE x \in result : TRUE
             IN  IF is_decisive(res)
                 THEN [ret |-> {res.kind}, all_results |-> results,
                       best_result |-> best, log |-> <<"candidate", "decisive">>]
                 ELSE [ret |-> {}, all_results |-> Append(results, res),
                       best_result |-> track_best(best, res),
                       log |-> <<"candidate">>]

\* the provider loop from provider number i on, then the final resolution
RECURSIVE run_chain(_, _, _, _)
run_chain(r, i, results, best) ==
    IF i > Len(PROVIDERS) THEN final_kind(best)
    ELSE LET s == chain_step(r, i, results, best)
         IN  IF s.ret # {} THEN CHOOSE k \in s.ret : TRUE
             ELSE run_chain(r, i + 1, s.all_results, s.best_result)

\* ProviderRegistry::detect as a function of the request
detect(r) ==
    IF override_kind(r) # {} THEN CHOOSE k \in override_kind(r) : TRUE
    ELSE run_chain(r, 1, <<>>, {})

(***************************************************************************)
(* usize and AtomicUsize (proxy/mod.rs 17, 44): a machine word of 64 bits,  *)
(* held as its digits in base 2^16, the most significant one first.        *)
(***************************************************************************)
UsizeBits == 64

LimbBase == 2^16

Limbs == 1..(UsizeBits \div 16)

\* the word of the small number k
usize(k) == [i \in Limbs |-> IF i = UsizeBits \div 16 THEN k ELSE 0]

\* usize::MAX
usize_MAX == [i \in Limbs |-> LimbBase - 1]

\* an addition whose result is never stored
wrapping_add_one_lost(v) == v

\* the addition of one of fetch_add: it wraps around at usize::MAX
wrapping_add_one(v) ==
    IF \A i \in Limbs : v[i] = LimbBase - 1 THEN usize(0)
    ELSE LET k == CHOOSE i \in Limbs :
                      /\ v[i] # LimbBase - 1
                      /\ \A j \in Limbs : j > i => v[j] = LimbBase - 1
         IN  [i \in Limbs |-> IF i < k THEN v[i] ELSE IF i = k THEN v[i] + 1 ELSE 0]

\* the remainder of the digits 1..i of v on division by n
RECURSIVE usize_rem_upto(_, _, _)
usize_rem_upto(v, n, i) ==
    IF i = 0 THEN 0 ELSE (usize_rem_upto(v, n, i - 1) * LimbBase + v[i]) % n

\* v % n for a small n
usize_rem(v, n) == usize_rem_upto(v, n, UsizeBits \div 16)

(***************************************************************************)
(* The state machine: one call of ProviderRegistry::detect on req.         *)
(***************************************************************************)
Init ==
    /\ req \in Requests
    /\ pc = "override"
    /\ idx = 1
    /\ all_results = <<>>
    /\ best_result = {}
    /\ ret = {}
    /\ log = <<>>
    /\ steps = 0
    /\ calls = 1
    /\ returned = {}
    /\ session = <<>>
    /\ upstream_request = <<>>
    /\ handler_pc = <<>>
    /\ ctx = <<>>
    /\ upstreams = <<>>
    /\ current_upstream = usize(0)
    /\ selected = <<>>
    /\ threads = <<>>
    /\ selection_log = <<>>
    /\ returned_count = <<>>

\* registry.rs 24-45: the explicit override
OverrideCheck ==
    /\ pc = "override"
    /\ IF override_kind(req) # {}
       THEN /\ ret' = override_kind(req)
            /\ pc' = "done"
            /\ log' = Append(log, "override")
       ELSE /\ ret' = ret
            /\ pc' = "chain"
            /\ log' = IF header(req, "x-langspec-provider") # {}
                      THEN Append(log, "invalid_override") ELSE log
    /\ steps' = steps + 1
    /\ UNCHANGED <<req, idx, all_results, best_result>>
    /\ UNCHANGED <<calls_vars, proxy_vars, select_vars>>

\* registry.rs 51-85: one iteration of the loop over the providers
ChainStep ==
    /\ pc = "chain"
    /\ idx <= Len(PROVIDERS)
    /\ LET s == chain_step(req, idx, all_results, best_result)
       IN  /\ ret' = s.ret
           /\ all_results' = s.all_results
           /\ best_result' = s.best_result
           /\ log' = log \o s.log
           /\ IF s.ret # {}
              THEN pc' = "done" /\ idx' = idx
              ELSE pc' = "chain" /\ idx' = idx + 1
    /\ steps' = steps + 1
    /\ UNCHANGED req
    /\ UNCHANGED <<calls_vars, proxy_vars, select_vars>>

\* registry.rs 87-122: the loop has ended; conflict diagnostics, then the best
\* result found, or Unknown
Resolve ==
    /\ pc = "chain"
    /\ idx > Len(PROVIDERS)
    /\ ret' = {final_kind(best_result)}
    /\ log' = log
              \o (IF Len(all_results) > 1 /\ conflicts(all_results) # {}
                  THEN <<"conflict">> ELSE <<>>)
              \o (IF best_result # {} THEN <<"final">> ELSE <<"default">>)
    /\ pc' = "done"
    /\ steps' = steps + 1
    /\ UNCHANGED <<req, idx, all_results, best_result>>
    /\ UNCHANGED <<calls_vars, proxy_vars, select_vars>>

Next == OverrideCheck \/ ChainStep \/ Resolve

Spec == Init /\ [][Next]_vars

TypeOK ==
    /\ pc \in {"override", "chain", "done", "idle"}
    /\ idx \in 1..(Len(PROVIDERS) + 1)
    /\ Len(all_results) <= Len(PROVIDERS)
    /\ Cardinality(best_result) <= 1
    /\ Cardinality(ret) <= 1
    /\ steps \in Nat

(***************************************************************************)
(* Vocabulary of the properties.  The conditions are stated on the raw     *)
(* header values of the request.                                           *)
(***************************************************************************)
\* a and b are the same text up to the case of ASCII letters
SameIgnoringCase(a, b) ==
    /\ Len(a) = Len(b)
    /\ \A i \in 1..Len(a) :
          \/ CharAt(a, i) = CharAt(b, i)
          \/ \E k \in 1..Len(UpperAlpha) :
                {CharAt(a, i), CharAt(b, i)} = {CharAt(UpperAlpha, k), CharAt(LowerAlpha, k)}

OverrideTokens == {"openai", "bedrock", "unknown"}

KindOfToken(t) ==
    IF t = "openai" THEN "OpenAI" ELSE IF t = "bedrock" THEN "Bedrock" ELSE "Unknown"

\* the request carries an override header holding one of the three tokens
RecognizedOverride(r) ==
    \E raw \in r.headers["x-langspec-provider"], t \in OverrideTokens :
        SameIgnoringCase(raw, t)

\* the request with header name removed
WithoutHeader(r, name) == [r EXCEPT !.headers[name] = {}]

Done == pc = "done"

\* the results the two matchers return for the request, in chain order
MatcherResults(r) == [i \in 1..Len(PROVIDERS) |-> provider_detect(PROVIDERS[i], r)]

\* the matchers that return a High-confidence result
HighMatchers(r) ==
    {i \in 1..Len(PROVIDERS) :
        \E res \in MatcherResults(r)[i] : res.confidence = "High"}

\* the guard of one of the steps of detect holds
CanStep ==
    \/ pc = "override"
    \/ pc = "chain" /\ idx <= Len(PROVIDERS)
    \/ pc = "chain" /\ idx > Len(PROVIDERS)

\* C1: every call of detect ends, and it ends with exactly one of OpenAI,
\* Bedrock and Unknown, whatever is present, absent or unreadable: a call that
\* has not returned can always take its next step, no call takes more steps
\* than the override check, one step per provider and the final resolution,
\* and a call that has returned has returned exactly one kind.
C1_DetectTerminatesWithKind ==
    /\ ~Done => CanStep
    /\ steps <= Len(PROVIDERS) + 2
    /\ Done => (Cardinality(ret) = 1 /\ ret \subseteq ProviderKind)

\* C1 witness: a call on a request without host and with an unreadable
\* Authorization has ended.
C1_Witness ==
    /\ Done
    /\ req.headers["host"] = {}
    /\ req.headers["authorization"] = {"Bearer é"}
    /\ ret = {"Unknown"}

\* C2: an override header holding openai, bedrock or unknown in any letter
\* case decides the result, whatever else the request carries.
C2_RecognizedOverrideDecides ==
    Done =>
        \A raw \in req.headers["x-langspec-provider"], t \in OverrideTokens :
            SameIgnoringCase(raw, t) => ret = {KindOfToken(t)}

\* C2 witness: override BEDROCK on a request to api.openai.com with an OpenAI
\* path is answered Bedrock.
C2_Witness ==
    /\ Done
    /\ req.headers["x-langspec-provider"] = {"BEDROCK"}
    /\ req.headers["host"] = {"api.openai.com"}
    /\ req.path = "/v1/chat/completions"
    /\ ret = {"Bedrock"}

\* C3: an override header whose value is none of the three tokens leaves the
\* result what it is for the same request without that header.
C3_InvalidOverrideIgnored ==
    (Done /\ req.headers["x-langspec-provider"] # {} /\ ~RecognizedOverride(req))
        => ret = {detect(WithoutHeader(req, "x-langspec-provider"))}

\* C3 witness: a request with the override value "invalid" is classified by
\* its host.
C3_Witness ==
    /\ Done
    /\ req.headers["x-langspec-provider"] = {"invalid"}
    /\ req.headers["host"] = {"api.openai.com"}
    /\ ret = {"OpenAI"}

\* C4: without a recognized override, when some matcher returns High the
\* result is the kind of the first matcher in chain order that returns High.
C4_FirstHighWins ==
    (Done /\ ~RecognizedOverride(req) /\ HighMatchers(req) # {})
        => LET first == CHOOSE i \in HighMatchers(req) :
                            \A j \in HighMatchers(req) : i <= j
           IN  \E res \in MatcherResults(req)[first] : ret = {res.kind}

\* C4 witness: OpenAI matched Medium by path, then Bedrock matched High, and
\* the result is Bedrock.
C4_Witness ==
    /\ Done
    /\ Len(all_results) = 1
    /\ all_results[1].kind = "OpenAI"
    /\ all_results[1].confidence = "Medium"
    /\ \E res \in MatcherResults(req)[2] : res.confidence = "High"
    /\ ret = {"Bedrock"}

\* C5: without a recognized override and without a High result, a matcher
\* result whose confidence is strictly greater than that of every other
\* matcher result gives the kind that detect returns.
C5_GreatestConfidenceWins ==
    (Done /\ ~RecognizedOverride(req) /\ HighMatchers(req) = {})
        => \A i \in 1..Len(PROVIDERS) : \A res \in MatcherResults(req)[i] :
              (\A j \in 1..Len(PROVIDERS) \ {i} : \A other \in MatcherResults(req)[j] :
                    confidence_ord(res.confidence) > confidence_ord(other.confidence))
              => ret = {res.kind}

\* C5 witness: OpenAI matched Low, Bedrock matched Medium, the result is
\* Bedrock.
C5_Witness ==
    /\ Done
    /\ Len(all_results) = 2
    /\ all_results[1].kind = "OpenAI" /\ all_results[1].confidence = "Low"
    /\ all_results[2].kind = "Bedrock" /\ all_results[2].confidence = "Medium"
    /\ ret = {"Bedrock"}

\* C6: when both matchers return non-decisive results of equal confidence,
\* the result is OpenAI, the kind of the matcher that comes first.
C6_TieKeepsFirst ==
    (Done /\ ~RecognizedOverride(req))
        => \A a \in MatcherResults(req)[1], b \in MatcherResults(req)[2] :
              (a.confidence = b.confidence /\ a.confidence # "High")
              => ret = {"OpenAI"}

\* C6 witness: both matchers matched Medium by path on an AWS host and the
\* result is OpenAI.
C6_Witness ==
    /\ Done
    /\ Len(all_results) = 2
    /\ all_results[1].kind = "OpenAI" /\ all_results[1].confidence = "Medium"
    /\ all_results[2].kind = "Bedrock" /\ all_results[2].confidence = "Medium"
    /\ ret = {"OpenAI"}

\* the host is readable, contains "bedrock" and ends with ".amazonaws.com"
BedrockHost(r) ==
    \E h \in r.headers["host"] :
        to_str(h) # {} /\ contains(h, "bedrock") /\ ends_with(h, ".amazonaws.com")

\* the host is exactly api.openai.com
OpenAIHost(r) == r.headers["host"] = {"api.openai.com"}

\* the Authorization header starts with prefix
AuthorizationStartsWith(r, prefix) ==
    \E a \in r.headers["authorization"] : to_str(a) # {} /\ starts_with(a, prefix)

\* the path starts with /v1/ and contains /chat, /completions or /responses
OpenAIShapedPath(r) ==
    /\ starts_with(r.path, "/v1/")
    /\ \E part \in {"/chat", "/completions", "/responses"} : contains(r.path, part)

\* C7 as stated: a Bedrock host gives Bedrock whatever the path and the other
\* headers are.
C7_BedrockHostAlwaysBedrock ==
    (Done /\ ~RecognizedOverride(req) /\ BedrockHost(req)) => ret = {"Bedrock"}

\* C7 amended: without a recognized override, a Bedrock host gives Bedrock
\* whatever the path and the other headers are, except when the request
\* combines Bearer authorization with an OpenAI-shaped path: then the OpenAI
\* matcher, which runs first, is decisive and the result is OpenAI.
C7_BedrockHostUnlessBearerOpenAIPath ==
    (Done /\ ~RecognizedOverride(req) /\ BedrockHost(req))
        => ret = IF AuthorizationStartsWith(req, "Bearer ") /\ OpenAIShapedPath(req)
                 THEN {"OpenAI"} ELSE {"Bedrock"}

\* C7 witness: a Bedrock host with an OpenAI path (matched Medium by the
\* OpenAI matcher) is answered Bedrock.
C7_Witness ==
    /\ Done
    /\ BedrockHost(req)
    /\ req.path = "/v1/chat/completions"
    /\ Len(all_results) = 1 /\ all_results[1].kind = "OpenAI"
    /\ ret = {"Bedrock"}

\* C8 as stated: SigV4 authorization gives Bedrock whatever the path and the
\* host are.
C8_SigV4AlwaysBedrock ==
    (Done /\ ~RecognizedOverride(req) /\ AuthorizationStartsWith(req, "AWS4-HMAC-SHA256"))
        => ret = {"Bedrock"}

\* C8 amended: without a recognized override, SigV4 authorization gives
\* Bedrock whatever the path is and for every host except api.openai.com, for
\* which the OpenAI matcher is decisive and the result is OpenAI.
C8_SigV4BedrockUnlessOpenAIHost ==
    (Done /\ ~RecognizedOverride(req) /\ AuthorizationStartsWith(req, "AWS4-HMAC-SHA256"))
        => ret = IF OpenAIHost(req) THEN {"OpenAI"} ELSE {"Bedrock"}

\* C8 witness: SigV4 authorization alone, on a generic host and with an OpenAI
\* path, is answered Bedrock.
C8_Witness ==
    /\ Done
    /\ req.headers["authorization"] = {"AWS4-HMAC-SHA256 Credential=x"}
    /\ req.headers["host"] = {"example.com"}
    /\ req.headers["x-amz-date"] = {}
    /\ req.headers["x-amz-security-token"] = {}
    /\ req.path = "/v1/completions"
    /\ ret = {"Bedrock"}

\* C9: without a recognized override, host api.openai.com gives OpenAI
\* whatever the path, the AWS headers and the authorization are.
C9_OpenAIHostAlwaysOpenAI ==
    (Done /\ ~RecognizedOverride(req) /\ OpenAIHost(req)) => ret = {"OpenAI"}

\* C9 witness: api.openai.com with a Bedrock path, SigV4 authorization and an
\* x-amz-date header is answered OpenAI.
C9_Witness ==
    /\ Done
    /\ OpenAIHost(req)
    /\ req.path = "/converse"
    /\ req.headers["authorization"] = {"AWS4-HMAC-SHA256 Credential=x"}
    /\ req.headers["x-amz-date"] = {"20231201T120000Z"}
    /\ ret = {"OpenAI"}

\* the three paths of C10
C10Paths == {"/v1/chat/completions", "/v1/completions", "/v1/responses"}

\* decisive Bedrock evidence: a Bedrock host, SigV4 authorization, or a
\* readable x-amz-date or x-amz-security-token header
BedrockHighEvidence(r) ==
    \/ BedrockHost(r)
    \/ AuthorizationStartsWith(r, "AWS4-HMAC-SHA256")
    \/ \E v \in r.headers["x-amz-date"] : to_str(v) # {}
    \/ \E v \in r.headers["x-amz-security-token"] : to_str(v) # {}

\* C10 as stated: the three OpenAI paths give OpenAI for any host or none.
C10_OpenAIPathAlwaysOpenAI ==
    (Done /\ ~RecognizedOverride(req) /\ req.path \in C10Paths) => ret = {"OpenAI"}

\* C10 amended: without a recognized override, the three OpenAI paths give
\* OpenAI for any host or none, except when the request carries decisive
\* Bedrock evidence and neither Bearer authorization nor host api.openai.com:
\* then the result is Bedrock.
C10_OpenAIPathUnlessBedrockHigh ==
    (Done /\ ~RecognizedOverride(req) /\ req.path \in C10Paths)
        => ret = IF /\ BedrockHighEvidence(req)
                    /\ ~AuthorizationStartsWith(req, "Bearer ")
                    /\ ~OpenAIHost(req)
                 THEN {"Bedrock"} ELSE {"OpenAI"}

\* C10 witness: /v1/completions without any host is answered OpenAI from the
\* Medium path result.
C10_Witness ==
    /\ Done
    /\ req.path = "/v1/completions"
    /\ req.headers["host"] = {}
    /\ Len(all_results) = 1 /\ all_results[1].signal = "path"
    /\ ret = {"OpenAI"}

\* header name holds a readable value
ReadableHeader(r, name) == \E v \in r.headers[name] : to_str(v) # {}

\* the host is readable and ends with ".amazonaws.com"
AwsHost(r) ==
    \E h \in r.headers["host"] : to_str(h) # {} /\ ends_with(h, ".amazonaws.com")

AwsContextHeaders == {"x-amz-date", "x-amzn-trace-id", "x-amz-security-token"}

\* one of the three AWS-context headers holds a readable value
AwsContextHeader(r) == \E name \in AwsContextHeaders : ReadableHeader(r, name)

\* the path contains /converse, /invoke or /model/
BedrockShapedPath(r) ==
    \E part \in {"/converse", "/invoke", "/model/"} : contains(r.path, part)

\* a Bedrock-shaped path without any AWS corroboration
UncorroboratedBedrockPath(r) ==
    /\ BedrockShapedPath(r)
    /\ ~AwsHost(r)
    /\ \A name \in AwsContextHeaders : r.headers[name] = {}
    /\ ~AuthorizationStartsWith(r, "AWS4-HMAC-SHA256")

\* no host, path or header evidence for OpenAI
NoOpenAISignal(r) ==
    /\ ~OpenAIHost(r)
    /\ ~OpenAIShapedPath(r)
    /\ ~ReadableHeader(r, "openai-organization")

\* the override header holds token t in some letter case
OverrideIs(r, t) ==
    \E raw \in r.headers["x-langspec-provider"] : SameIgnoringCase(raw, t)

\* C11 as stated: for a Bedrock-shaped path without AWS corroboration the
\* Bedrock matcher returns no match, detect never returns Bedrock, and it
\* returns Unknown when there is no OpenAI signal and no override.
C11_UncorroboratedPathNeverBedrock ==
    (Done /\ UncorroboratedBedrockPath(req))
        => /\ MatcherResults(req)[2] = {}
           /\ ret # {"Bedrock"}
           /\ (NoOpenAISignal(req) /\ ~RecognizedOverride(req)) => ret = {"Unknown"}

\* C11 amended: for a Bedrock-shaped path without AWS corroboration the
\* Bedrock matcher returns no match; detect returns Bedrock for it only when
\* the override header says bedrock, and it returns Unknown when there is no
\* OpenAI signal and no recognized override.
C11_UncorroboratedPathBedrockOnlyByOverride ==
    (Done /\ UncorroboratedBedrockPath(req))
        => /\ MatcherResults(req)[2] = {}
           /\ ret = {"Bedrock"} <=> OverrideIs(req, "bedrock")
           /\ (NoOpenAISignal(req) /\ ~RecognizedOverride(req)) => ret = {"Unknown"}

\* C11 witness: /invoke on a generic host without AWS headers went through
\* both matchers and is answered Unknown.
C11_Witness ==
    /\ Done
    /\ req.path = "/invoke"
    /\ req.headers["host"] = {"example.com"}
    /\ UncorroboratedBedrockPath(req)
    /\ idx = Len(PROVIDERS) + 1
    /\ all_results = <<>>
    /\ ret = {"Unknown"}

\* the path is /converse, /invoke or lies under /model/
C12Path(r) == r.path \in {"/converse", "/invoke"} \/ starts_with(r.path, "/model/")

\* C12 as stated: a Bedrock path on an AWS host, or with an AWS-context
\* header, gives Bedrock.
C12_CorroboratedPathAlwaysBedrock ==
    (Done /\ ~RecognizedOverride(req) /\ C12Path(req)
          /\ (AwsHost(req) \/ AwsContextHeader(req)))
        => ret = {"Bedrock"}

\* C12 amended: without a recognized override, a Bedrock path on an AWS host,
\* or with a readable AWS-context header on any host other than
\* api.openai.com, gives Bedrock; on host api.openai.com the OpenAI matcher is
\* decisive first and the result is OpenAI.
C12_CorroboratedPathBedrockUnlessOpenAIHost ==
    (Done /\ ~RecognizedOverride(req) /\ C12Path(req)
          /\ (AwsHost(req) \/ AwsContextHeader(req)))
        => ret = IF OpenAIHost(req) THEN {"OpenAI"} ELSE {"Bedrock"}

\* C12 witness: /converse with only an x-amzn-trace-id header and an
\* OpenAI-Organization header: OpenAI matched Low, Bedrock matched Medium by
\* path, the result is Bedrock.
C12_Witness ==
    /\ Done
    /\ req.path = "/converse"
    /\ req.headers["host"] = {"example.com"}
    /\ req.headers["x-amzn-trace-id"] = {"Root=1-5759e988"}
    /\ Len(all_results) = 2
    /\ all_results[2].kind = "Bedrock" /\ all_results[2].signal = "path"
    /\ ret = {"Bedrock"}

\* Bearer authorization is the only provider signal of the request
BearerOnly(r) ==
    /\ AuthorizationStartsWith(r, "Bearer ")
    /\ NoOpenAISignal(r)
    /\ ~AwsHost(r)
    /\ ~AwsContextHeader(r)
    /\ ~RecognizedOverride(r)

\* C13: a request whose only provider signal is Bearer authorization gets no
\* match from the OpenAI matcher and detect returns Unknown.
C13_BearerAloneIsUnknown ==
    (Done /\ BearerOnly(req))
        => MatcherResults(req)[1] = {} /\ ret = {"Unknown"}

\* C13 witness: Bearer authorization with path /api/chat on a generic host is
\* answered Unknown after both matchers ran.
C13_Witness ==
    /\ Done
    /\ req.headers["authorization"] = {"Bearer sk-123"}
    /\ req.path = "/api/chat"
    /\ req.headers["host"] = {"example.com"}
    /\ BearerOnly(req)
    /\ idx = Len(PROVIDERS) + 1
    /\ ret = {"Unknown"}

\* C14: without a recognized override, Bearer authorization together with
\* host api.openai.com or an OpenAI-shaped path gives OpenAI, whatever other
\* host or header evidence there is.
C14_CorroboratedBearerIsOpenAI ==
    (Done /\ ~RecognizedOverride(req) /\ AuthorizationStartsWith(req, "Bearer ")
          /\ (OpenAIHost(req) \/ OpenAIShapedPath(req)))
        => ret = {"OpenAI"}

\* C14 witness: Bearer authorization with an OpenAI path on a Bedrock host
\* with an x-amz-date header is answered OpenAI by the auth rule.
C14_Witness ==
    /\ Done
    /\ req.headers["authorization"] = {"Bearer sk-123"}
    /\ req.path = "/v1/chat/completions"
    /\ BedrockHost(req)
    /\ req.headers["x-amz-date"] = {"20231201T120000Z"}
    /\ log = <<"candidate", "decisive">>
    /\ ret = {"OpenAI"}

\* the three paths of C15 that the path rule must not match
C15Paths == {"/v1/models", "/api/chat", "/v2/chat/completions"}

\* C15: the OpenAI path rule matches exactly the paths that start with /v1/
\* and contain /chat, /completions or /responses; /v1/models, /api/chat and
\* /v2/chat/completions on a host other than api.openai.com, without any
\* other provider signal or override, give Unknown.
C15_PathRuleExact ==
    Done =>
        /\ \A i \in 1..Len(all_results) :
              (all_results[i].kind = "OpenAI" /\ all_results[i].signal = "path")
                  => OpenAIShapedPath(req)
        /\ (/\ OpenAIShapedPath(req)
            /\ ~RecognizedOverride(req)
            /\ ~OpenAIHost(req)
            /\ ~AuthorizationStartsWith(req, "Bearer ")
            /\ ~BedrockHighEvidence(req))
              => \E i \in 1..Len(all_results) :
                    all_results[i].kind = "OpenAI" /\ all_results[i].signal = "path"
        /\ (/\ req.path \in C15Paths
            /\ ~OpenAIHost(req)
            /\ ~ReadableHeader(req, "openai-organization")
            /\ ~AwsHost(req)
            /\ ~AwsContextHeader(req)
            /\ ~AuthorizationStartsWith(req, "AWS4-HMAC-SHA256")
            /\ ~RecognizedOverride(req))
              => ret = {"Unknown"}

\* C15 witness: /v2/chat/completions on a generic host without other signals
\* is answered Unknown.
C15_Witness ==
    /\ Done
    /\ req.path = "/v2/chat/completions"
    /\ req.headers["host"] = {"example.com"}
    /\ req.headers["authorization"] = {}
    /\ req.headers["openai-organization"] = {}
    /\ ~AwsContextHeader(req)
    /\ ~RecognizedOverride(req)
    /\ ret = {"Unknown"}

\* some matcher returns a result for the request
SomeMatcherMatches(r) == \E i \in 1..Len(PROVIDERS) : MatcherResults(r)[i] # {}

\* no matcher result names Unknown
MatchersNeverUnknown(r) ==
    \A i \in 1..Len(PROVIDERS) : \A res \in MatcherResults(r)[i] : res.kind # "Unknown"

\* C16 as stated: detect returns Unknown only when no matcher matches; no
\* matcher produces Unknown and every request some matcher matches is
\* classified OpenAI or Bedrock.
C16_UnknownOnlyWithoutMatch ==
    Done =>
        /\ MatchersNeverUnknown(req)
        /\ ret = {"Unknown"} => ~SomeMatcherMatches(req)
        /\ SomeMatcherMatches(req) => ret \in {{"OpenAI"}, {"Bedrock"}}

\* C16 amended: for a request without a recognized override, detect returns
\* Unknown exactly when no matcher matches; no matcher produces Unknown, and
\* every such request some matcher matches is classified OpenAI or Bedrock.
\* (The override value unknown gives Unknown whatever the matchers find.)
C16_UnknownOnlyWithoutMatchOrByOverride ==
    Done =>
        /\ MatchersNeverUnknown(req)
        /\ ~RecognizedOverride(req) =>
              /\ ret = {"Unknown"} <=> ~SomeMatcherMatches(req)
              /\ SomeMatcherMatches(req) => ret \in {{"OpenAI"}, {"Bedrock"}}
        /\ OverrideIs(req, "unknown") => ret = {"Unknown"}

\* C16 witness: a request whose only match is a Low OpenAI-Organization
\* result is answered OpenAI.
C16_Witness ==
    /\ Done
    /\ ~RecognizedOverride(req)
    /\ Len(all_results) = 1
    /\ all_results[1].confidence = "Low"
    /\ MatcherResults(req)[2] = {}
    /\ ret = {"OpenAI"}

\* the value holds a byte that is not visible ASCII
Unreadable(raw) == \E i \in 1..Len(raw) : CharAt(raw, i) \notin VisibleAscii

\* the headers the detection reads
DetectionHeaders ==
    {"host", "authorization", "x-amz-date", "x-amz-security-token",
     "x-amzn-trace-id", "openai-organization", "x-langspec-provider"}

\* C17: a header whose value cannot be read as text counts as absent: the
\* result is the one for the same request without that header, for each of
\* the headers the detection reads.
C17_UnreadableHeaderIsAbsent ==
    Done =>
        \A name \in DetectionHeaders :
            (\E raw \in req.headers[name] : Unreadable(raw))
                => ret = {detect(WithoutHeader(req, name))}

\* C17 witness: an unreadable host that would name Bedrock if it were read,
\* with an OpenAI path, is answered OpenAI.
C17_Witness ==
    /\ Done
    /\ req.headers["host"] = {"bedrock-é.amazonaws.com"}
    /\ req.path = "/v1/chat/completions"
    /\ req.headers["authorization"] = {}
    /\ ~AwsContextHeader(req)
    /\ ~RecognizedOverride(req)
    /\ ret = {"OpenAI"}

(***************************************************************************)
(* Repeated calls of ProviderRegistry::detect on one registry.             *)
(***************************************************************************)
\* the number of calls in a sequence
MaxCalls == 3

\* the header names of the requests built below
HeaderNames ==
    {"host", "authorization", "x-amz-date", "x-amz-security-token",
     "x-amzn-trace-id", "openai-organization", "x-langspec-provider",
     "x-forwarded-by"}

\* tests/provider_tests.rs create_test_request: the host first, then the
\* listed headers, each inserted under its case-insensitive name
create_test_request(m, uri, h, hs) ==
    [method |-> m, path |-> uri,
     headers |->
        [name \in HeaderNames |->
            IF \E k \in DOMAIN hs : to_lowercase(k) = name
            THEN {hs[k] : k \in {x \in DOMAIN hs : to_lowercase(x) = name}}
            ELSE IF name = "host" THEN h ELSE {}]]

\* the requests the calls are made on: an OpenAI path alone (Medium), AWS
\* host and trace id alone (Low), no signal, OpenAI host with Bearer (High)
\* and an override
CallPool ==
    { create_test_request("POST", "/v1/chat/completions", {"example.com"}, <<>>),
      create_test_request("POST", "/api/chat", {"api.amazonaws.com"},
                          "X-Amzn-Trace-Id" :> "Root=1-5759e988"),
      create_test_request("GET", "/api/chat", {"example.com"}, <<>>),
      create_test_request("POST", "/v1/chat/completions", {"api.openai.com"},
                          "Authorization" :> "Bearer sk-123"),
      create_test_request("POST", "/converse", {},
                          "X-LangSpec-Provider" :> "BEDROCK") }

\* registry.rs 48: every call starts with an empty result list
new_all_results == <<>>

\* the best result of the previous call is kept
new_best_result_stale == best_result

\* registry.rs 49: every call starts without a best result
new_best_result == {}

CallsInit ==
    /\ req \in CallPool
    /\ pc = "override"
    /\ idx = 1
    /\ all_results = new_all_results
    /\ best_result = {}
    /\ ret = {}
    /\ log = <<>>
    /\ steps = 0
    /\ calls = 1
    /\ returned = {}
    /\ session = <<>>
    /\ upstream_request = <<>>
    /\ handler_pc = <<>>
    /\ ctx = <<>>
    /\ upstreams = <<>>
    /\ current_upstream = usize(0)
    /\ selected = <<>>
    /\ threads = <<>>
    /\ selection_log = <<>>
    /\ returned_count = <<>>

\* the call has returned; the caller keeps the answer and calls detect again,
\* on the same registry, with any request
NextCall ==
    /\ pc = "done"
    /\ calls < MaxCalls
    /\ returned' = returned \cup {[request |-> req, kind |-> ret]}
    /\ calls' = calls + 1
    /\ req' \in CallPool
    /\ pc' = "override"
    /\ idx' = 1
    /\ all_results' = new_all_results
    /\ best_result' = new_best_result
    /\ ret' = {}
    /\ log' = <<>>
    /\ steps' = 0
    /\ UNCHANGED <<proxy_vars, select_vars>>

CallsNext == OverrideCheck \/ ChainStep \/ Resolve \/ NextCall

CallsSpec == CallsInit /\ [][CallsNext]_vars

\* C18: calls of detect on the same request return the same kind, whatever
\* calls on other requests were made in between, and every call returns what
\* a first call on its request returns.
C18_RepeatedCallsAgree ==
    /\ \A a, b \in returned : a.request = b.request => a.kind = b.kind
    /\ \A a \in returned : a.kind = {detect(a.request)}
    /\ Done => /\ ret = {detect(req)}
               /\ \A a \in returned : a.request = req => a.kind = ret

\* C18 witness: the third call repeats the request of the first one, after a
\* call on a request that is answered Bedrock, and is answered Unknown again.
C18_Witness ==
    /\ Done
    /\ calls = 3
    /\ ret = {"Unknown"}
    /\ [request |-> req, kind |-> {"Unknown"}] \in returned
    /\ \E a \in returned : a.kind = {"Bedrock"} /\ a.request.method = "POST"
                           /\ a.request.headers["x-langspec-provider"] = {}

(***************************************************************************)
(* GatewayProxy (proxy/mod.rs): concurrent request handlers on one proxy.  *)
(***************************************************************************)
\* the number of requests handled concurrently
NumHandlers == 2

Handlers == 1..NumHandlers

\* upstream lists of the proxy tests
UpstreamLists ==
    { <<"127.0.0.1:8001">>, <<"127.0.0.1:8001", "127.0.0.1:8002">> }

\* the downstream requests: Bearer with an OpenAI path on a Bedrock host, as
\* POST and as GET with a client-sent X-Forwarded-By; a Bedrock path with a
\* trace id; no signal; a Bedrock host alone; an override on the OpenAI host
ProxyPool ==
    { create_test_request("POST", "/v1/chat/completions",
                          {"bedrock-runtime.us-east-1.amazonaws.com"},
                          "Authorization" :> "Bearer sk-123"),
      create_test_request("GET", "/v1/chat/completions",
                          {"bedrock-runtime.us-east-1.amazonaws.com"},
                          ("Authorization" :> "Bearer sk-123")
                              @@ ("X-Forwarded-By" :> "other-proxy")),
      create_test_request("POST", "/converse", {"example.com"},
                          "X-Amzn-Trace-Id" :> "Root=1-5759e988"),
      create_test_request("GET", "/api/chat", {"example.com"}, <<>>),
      create_test_request("POST", "/api/chat",
                          {"bedrock-runtime.us-east-1.amazonaws.com"}, <<>>),
      create_test_request("POST", "/v1/chat/completions", {"api.openai.com"},
                          "X-LangSpec-Provider" :> "bedrock") }

\* ctx.rs 10-17
Ctx_default == [provider |-> "Unknown", start |-> {}]

\* the context a handler works on is the one of everybody
ctx_shared(h) == 1

\* proxy/mod.rs 53-55, 73: every request gets a context of its own and its
\* handlers are passed that one
ctx_of(h) == h

\* an index that starts at the second upstream
select_upstream_index_off_by_one ==
    usize_rem(wrapping_add_one(current_upstream), Len(upstreams))

\* proxy/mod.rs 44: the index fetch_add returns, modulo the list length
select_upstream_index == usize_rem(current_upstream, Len(upstreams))

\* headers.rs 64-67: insert_header replaces any value the client sent
add_forwarded_by_header(r) ==
    [r EXCEPT !.headers["x-forwarded-by"] = {"langspec-gateway"}]

\* headers.rs 32-42
apply_upstream_request_headers(r) == add_forwarded_by_header(r)

\* Instant::now(): a logical clock, the number of requests already stamped
Instant_now == Cardinality({h \in Handlers : handler_pc[h] = "done"})

\* on_request that records the provider but not the time
on_request_without_start(request_header) ==
    [provider |-> detect(request_header), start |-> {}]

\* pipeline/mod.rs 21-25
on_request(request_header) ==
    [provider |-> detect(request_header), start |-> {Instant_now}]

\* GatewayProxy::new (proxy/mod.rs 23-41) and the requests the server has
\* accepted; the upstream request starts as a copy of the downstream one
ProxyInit ==
    /\ upstreams \in UpstreamLists
    /\ current_upstream = usize(0)
    /\ session \in [Handlers -> ProxyPool]
    /\ upstream_request = session
    /\ handler_pc = [h \in Handlers |-> "accepted"]
    /\ ctx = [h \in Handlers |-> {}]
    /\ selected = [h \in Handlers |-> {}]
    /\ threads = <<>>
    /\ selection_log = <<>>
    /\ returned_count = <<>>
    /\ req = create_test_request("GET", "/", {}, <<>>)
    /\ pc = "idle"
    /\ idx = 1
    /\ all_results = <<>>
    /\ best_result = {}
    /\ ret = {}
    /\ log = <<>>
    /\ steps = 0
    /\ calls = 1
    /\ returned = {}

\* proxy/mod.rs 53-55
new_ctx(h) ==
    /\ handler_pc[h] = "accepted"
    /\ ctx' = [ctx EXCEPT ![ctx_of(h)] = {Ctx_default}]
    /\ handler_pc' = [handler_pc EXCEPT ![h] = "peer"]
    /\ UNCHANGED <<session, upstream_request, upstreams, current_upstream, selected>>
    /\ UNCHANGED <<detect_vars, calls_vars, select_vars>>

\* proxy/mod.rs 57-67 with select_upstream (43-46): one atomic fetch_add
upstream_peer(h) ==
    /\ handler_pc[h] = "peer"
    /\ selected' = [selected EXCEPT ![h] = {upstreams[select_upstream_index + 1]}]
    /\ current_upstream' = wrapping_add_one(current_upstream)
    /\ handler_pc' = [handler_pc EXCEPT ![h] = "filter"]
    /\ UNCHANGED <<session, upstream_request, ctx, upstreams>>
    /\ UNCHANGED <<detect_vars, calls_vars, select_vars>>

\* proxy/mod.rs 69-83: the header policy, then the pipeline
upstream_request_filter(h) ==
    /\ handler_pc[h] = "filter"
    /\ LET request == apply_upstream_request_headers(upstream_request[h])
       IN  /\ upstream_request' = [upstream_request EXCEPT ![h] = request]
           /\ ctx' = [ctx EXCEPT ![ctx_of(h)] = {on_request(request)}]
    /\ handler_pc' = [handler_pc EXCEPT ![h] = "done"]
    /\ UNCHANGED <<session, upstreams, current_upstream, selected>>
    /\ UNCHANGED <<detect_vars, calls_vars, select_vars>>

ProxyNext ==
    \/ \E h \in Handlers : new_ctx(h)
    \/ \E h \in Handlers : upstream_peer(h)
    \/ \E h \in Handlers : upstream_request_filter(h)

ProxySpec == ProxyInit /\ [][ProxyNext]_vars

\* the provider recorded in the context of handler h, if any
RecordedProvider(h) == {c.provider : c \in ctx[h]}

\* C19: under every interleaving of the handlers, the provider recorded for
\* a request is the one detect gives for that request alone; it depends
\* neither on the other requests nor on the round-robin counter.
C19_ConcurrentRequestsIndependent ==
    \A h \in Handlers :
        handler_pc[h] = "done" => RecordedProvider(h) = {detect(session[h])}

\* C19 witness: two requests of different kinds were handled concurrently,
\* the second one took its peer first, and each has its own kind recorded.
C19_Witness ==
    /\ handler_pc[1] = "done" /\ handler_pc[2] = "done"
    /\ Len(upstreams) = 2
    /\ current_upstream = usize(2)
    /\ selected[2] = {upstreams[1]} /\ selected[1] = {upstreams[2]}
    /\ session[1].path = "/converse" /\ session[2].path = "/api/chat"
    /\ session[2].method = "GET"
    /\ RecordedProvider(1) = {"Bedrock"}
    /\ RecordedProvider(2) = {"Unknown"}

\* the two requests have the same path, host and detection headers
SameDetectionInputs(a, b) ==
    /\ a.path = b.path
    /\ \A name \in DetectionHeaders : a.headers[name] = b.headers[name]

\* C20: the classification depends on the path, the host and the six
\* detection headers only: requests that differ in the method or in another
\* header, such as X-Forwarded-By, which the gateway sets before detection,
\* get the same kind.
C20_OnlyDetectionInputsMatter ==
    \A h1, h2 \in Handlers :
        (/\ handler_pc[h1] = "done" /\ handler_pc[h2] = "done"
         /\ SameDetectionInputs(session[h1], session[h2]))
            => /\ RecordedProvider(h1) = RecordedProvider(h2)
               /\ upstream_request[h1].headers["x-forwarded-by"] = {"langspec-gateway"}

\* C20 witness: a POST and a GET with a client-sent X-Forwarded-By, equal in
\* path, host and detection headers, are both recorded as OpenAI.
C20_Witness ==
    /\ handler_pc[1] = "done" /\ handler_pc[2] = "done"
    /\ session[1].method = "POST" /\ session[2].method = "GET"
    /\ session[1].headers["x-forwarded-by"] = {}
    /\ session[2].headers["x-forwarded-by"] = {"other-proxy"}
    /\ SameDetectionInputs(session[1], session[2])
    /\ RecordedProvider(1) = {"OpenAI"} /\ RecordedProvider(2) = {"OpenAI"}

\* C21: a fresh context has provider Unknown and no start time; after
\* on_request the context holds the kind detect returns for the request that
\* was passed to it, and a start time.
C21_CtxDefaultsThenDetected ==
    \A h \in Handlers :
        /\ handler_pc[h] \in {"peer", "filter"}
              => ctx[h] = {[provider |-> "Unknown", start |-> {}]}
        /\ handler_pc[h] = "done"
              => \E c \in ctx[h] :
                    /\ ctx[h] = {c}
                    /\ c.provider = detect(upstream_request[h])
                    /\ c.start # {}

\* C21 witness: one handler still holds its fresh context while the other
\* has run on_request on a Bedrock request and holds Bedrock and a start time.
C21_Witness ==
    /\ handler_pc[1] = "filter"
    /\ ctx[1] = {[provider |-> "Unknown", start |-> {}]}
    /\ session[1].path = "/v1/chat/completions"
    /\ handler_pc[2] = "done"
    /\ session[2].path = "/converse"
    /\ \E c \in ctx[2] : c.provider = "Bedrock" /\ c.start # {}

\* the diagnostics written by the call contain entry e
Logged(e) == \E i \in 1..Len(log) : log[i] = e

\* both matchers return a result for the request, neither of them High, and
\* the two results name different kinds
NonDecisiveDisagreement(r) ==
    /\ HighMatchers(r) = {}
    /\ \E a \in MatcherResults(r)[1], b \in MatcherResults(r)[2] : a.kind # b.kind

\* C24: a conflict is logged exactly when the matcher pass completes without
\* a High result and the accumulated results hold two results of different
\* kinds; the returned kind is then still the one of the better result, the
\* first one on a tie.
C24_ConflictLoggedExactly ==
    Done =>
        /\ Logged("conflict")
              <=> (~RecognizedOverride(req) /\ NonDecisiveDisagreement(req))
        /\ Logged("conflict")
              => /\ Len(all_results) = 2
                 /\ all_results[1].kind # all_results[2].kind
                 /\ ret = IF confidence_ord(all_results[2].confidence)
                               > confidence_ord(all_results[1].confidence)
                          THEN {all_results[2].kind}
                          ELSE {all_results[1].kind}

\* C24 witness: OpenAI matched Low, Bedrock matched Medium, the conflict was
\* logged and the result is Bedrock.
C24_Witness ==
    /\ Done
    /\ log = <<"candidate", "candidate", "conflict", "final">>
    /\ all_results[1].kind = "OpenAI" /\ all_results[1].confidence = "Low"
    /\ all_results[2].kind = "Bedrock" /\ all_results[2].confidence = "Medium"
    /\ ret = {"Bedrock"}

\* the reference: both matchers run to completion; the result of the highest
\* confidence wins, the earlier matcher on a tie, Unknown without any result
ReferenceKind(r) ==
    LET found == {<<i, res>> : i \in 1..Len(PROVIDERS),
                               res \in UNION {MatcherResults(r)[j] : j \in 1..Len(PROVIDERS)}}
        valid == {f \in found : f[2] \in MatcherResults(r)[f[1]]}
        wins(f, g) ==
            \/ confidence_ord(f[2].confidence) > confidence_ord(g[2].confidence)
            \/ /\ f[2].confidence = g[2].confidence
               /\ f[1] <= g[1]
    IN  IF valid = {} THEN "Unknown"
        ELSE (CHOOSE f \in valid : \A g \in valid : wins(f, g))[2].kind

\* C25: without a recognized override, detect returns what the reference
\* returns that runs both matchers to completion.
C25_EarlyExitUnobservable ==
    (Done /\ ~RecognizedOverride(req)) => ret = {ReferenceKind(req)}

\* C25 witness: detect returned at the OpenAI matcher's High result without
\* asking the Bedrock matcher, which would have returned High as well.
C25_Witness ==
    /\ Done
    /\ idx = 1
    /\ log = <<"candidate", "decisive">>
    /\ \E b \in MatcherResults(req)[2] : b.confidence = "High"
    /\ ret = {"OpenAI"}

\* C26 as stated: a readable x-amz-date or x-amz-security-token header makes
\* the Bedrock matcher return High with signal auth on any host and path; a
\* Medium or Low Bedrock result implies both headers are absent, and then the
\* header corroboration is x-amzn-trace-id.
C26_AmzDateOrTokenAlwaysHighAuth ==
    \A b \in MatcherResults(req)[2] :
        /\ (ReadableHeader(req, "x-amz-date") \/ ReadableHeader(req, "x-amz-security-token"))
              => b.confidence = "High" /\ b.signal = "auth"
        /\ b.confidence \in {"Medium", "Low"}
              => /\ req.headers["x-amz-date"] = {}
                 /\ req.headers["x-amz-security-token"] = {}
        /\ (b.confidence = "Medium" /\ ~AwsHost(req)) => ReadableHeader(req, "x-amzn-trace-id")
        /\ b.confidence = "Low" => ReadableHeader(req, "x-amzn-trace-id")

\* C26 amended: a readable x-amz-date or x-amz-security-token header makes
\* the Bedrock matcher return High on any host and path, with signal auth
\* unless the host is a Bedrock host, where the host rule comes first and the
\* signal is host; a Medium or Low Bedrock result implies that neither header
\* holds a readable value, and then the header corroboration is
\* x-amzn-trace-id.
C26_AmzDateOrTokenHighAuthUnlessBedrockHost ==
    /\ (ReadableHeader(req, "x-amz-date") \/ ReadableHeader(req, "x-amz-security-token"))
          => MatcherResults(req)[2] # {}
    /\ \A b \in MatcherResults(req)[2] :
        /\ (ReadableHeader(req, "x-amz-date") \/ ReadableHeader(req, "x-amz-security-token"))
              => /\ b.confidence = "High"
                 /\ b.signal = IF BedrockHost(req) THEN "host" ELSE "auth"
        /\ b.confidence \in {"Medium", "Low"}
              => /\ ~ReadableHeader(req, "x-amz-date")
                 /\ ~ReadableHeader(req, "x-amz-security-token")
        /\ (b.confidence = "Medium" /\ ~AwsHost(req)) => ReadableHeader(req, "x-amzn-trace-id")
        /\ b.confidence = "Low" => ReadableHeader(req, "x-amzn-trace-id")

\* C26 witness: a readable x-amz-security-token on a generic host and path;
\* the Bedrock matcher was asked, was decisive, and the result is Bedrock.
C26_Witness ==
    /\ Done
    /\ req.headers["x-amz-security-token"] # {}
    /\ ReadableHeader(req, "x-amz-security-token")
    /\ req.headers["host"] = {"example.com"}
    /\ req.path = "/api/chat"
    /\ idx = 2
    /\ log = <<"candidate", "decisive">>
    /\ \E b \in MatcherResults(req)[2] : b.signal = "auth"
    /\ ret = {"Bedrock"}

(***************************************************************************)
(* GatewayProxy::select_upstream (proxy/mod.rs 43-46, lib.rs 22-25) called *)
(* by several threads, as in test_concurrent_selection.                    *)
(***************************************************************************)
\* the number of threads and the number of calls each of them makes
NumThreads == 2

CallsPerThread == 2

Threads == 1..NumThreads

\* upstream lists of the selection tests
SelectLists ==
    { <<"single-backend:8080">>,
      <<"upstream1:80", "upstream2:80">>,
      <<"server1:80", "server2:80", "server3:80">> }

\* a proxy whose counter holds v, and threads that have not called yet
SelectInitAt(v) ==
    /\ upstreams \in SelectLists
    /\ current_upstream = v
    /\ threads = [t \in Threads |->
                    [pc |-> "idle", index |-> 0, ordinal |-> 0, result |-> {},
                     calls |-> 0]]
    /\ selection_log = <<>>
    /\ returned_count = [i \in 1..Len(upstreams) |-> 0]
    /\ session = <<>>
    /\ upstream_request = <<>>
    /\ handler_pc = <<>>
    /\ ctx = <<>>
    /\ selected = <<>>
    /\ req = create_test_request("GET", "/", {}, <<>>)
    /\ pc = "idle"
    /\ idx = 1
    /\ all_results = <<>>
    /\ best_result = {}
    /\ ret = {}
    /\ log = <<>>
    /\ steps = 0
    /\ calls = 1
    /\ returned = {}

\* GatewayProxy::new (proxy/mod.rs 35-40): the counter starts at 0
SelectInit == SelectInitAt(usize(0))

\* proxy/mod.rs 44: the atomic fetch_add and the remainder of the value it
\* returns
select_upstream_fetch(t) ==
    /\ threads[t].pc = "idle"
    /\ threads[t].calls < CallsPerThread
    /\ current_upstream' = wrapping_add_one(current_upstream)
    /\ selection_log' = Append(selection_log,
                               [observed |-> current_upstream,
                                index |-> select_upstream_index])
    /\ threads' = [threads EXCEPT ![t] =
                      [@ EXCEPT !.pc = "selected",
                                !.index = select_upstream_index,
                                !.ordinal = Len(selection_log),
                                !.result = {}]]
    /\ UNCHANGED <<upstreams, returned_count>>
    /\ UNCHANGED <<session, upstream_request, handler_pc, ctx, selected>>
    /\ UNCHANGED <<detect_vars, calls_vars>>

\* proxy/mod.rs 45: the indexing, which panics outside the list
select_upstream_return(t) ==
    /\ threads[t].pc = "selected"
    /\ LET index == threads[t].index
       IN  IF index < Len(upstreams)
           THEN /\ threads' = [threads EXCEPT ![t] =
                                  [@ EXCEPT !.pc = "idle",
                                            !.result = {upstreams[index + 1]},
                                            !.calls = @ + 1]]
                /\ returned_count' = [returned_count EXCEPT ![index + 1] = @ + 1]
           ELSE /\ threads' = [threads EXCEPT ![t] = [@ EXCEPT !.pc = "panicked"]]
                /\ returned_count' = returned_count
    /\ UNCHANGED <<upstreams, current_upstream, selection_log>>
    /\ UNCHANGED <<session, upstream_request, handler_pc, ctx, selected>>
    /\ UNCHANGED <<detect_vars, calls_vars>>

SelectNext ==
    \/ \E t \in Threads : select_upstream_fetch(t)
    \/ \E t \in Threads : select_upstream_return(t)

SelectSpec == SelectInit /\ [][SelectNext]_vars

\* C22: on a proxy with n upstreams the k-th call of select_upstream, counted
\* from 0, computes index k mod n and is returned upstreams[k mod n].
C22_RoundRobinOrder ==
    /\ \A k \in 1..Len(selection_log) :
          selection_log[k].index = (k - 1) % Len(upstreams)
    /\ \A t \in Threads : \A u \in threads[t].result :
          u = upstreams[(threads[t].ordinal % Len(upstreams)) + 1]

\* C22 witness: the fourth call on a list of three upstreams has returned
\* the first upstream again.
C22_Witness ==
    /\ Len(upstreams) = 3
    /\ Len(selection_log) = 4
    /\ \E t \in Threads :
          /\ threads[t].ordinal = 3
          /\ threads[t].result = {"server1:80"}
    /\ returned_count = <<2, 1, 1>>

\* no call is between its fetch_add and its return
NoCallInFlight == \A t \in Threads : threads[t].pc = "idle"

\* the number of calls that have returned
TotalReturned == Len(selection_log) - Cardinality({t \in Threads : threads[t].pc # "idle"})

\* C23: under every interleaving of the threads no call panics, every call
\* computes an index inside the list and is returned a configured upstream,
\* no two calls observe the same counter value, and when n*m calls have
\* returned each of the n upstreams has been returned m times.
C23_ConcurrentSelectionSafe ==
    /\ \A t \in Threads :
          /\ threads[t].pc \in {"idle", "selected"}
          /\ threads[t].index < Len(upstreams)
          /\ \A u \in threads[t].result : \E i \in 1..Len(upstreams) : u = upstreams[i]
    /\ \A i, j \in 1..Len(selection_log) :
          i # j => selection_log[i].observed # selection_log[j].observed
    /\ (NoCallInFlight /\ TotalReturned % Len(upstreams) = 0)
          => \A i \in 1..Len(upstreams) :
                returned_count[i] * Len(upstreams) = TotalReturned

\* C23 witness: two threads are both between fetch_add and return, with
\* different indices, after each has completed a call.
C23_Witness ==
    /\ Len(upstreams) = 2
    /\ threads[1].pc = "selected" /\ threads[2].pc = "selected"
    /\ threads[1].calls = 1 /\ threads[2].calls = 1
    /\ threads[1].index # threads[2].index
    /\ threads[2].ordinal = 2 /\ threads[1].ordinal = 3
    /\ returned_count = <<1, 1>>

\* a counter two calls before its wrap-around: the state of a proxy that has
\* served 2^64 - 2 selections
WrapInit == SelectInitAt([usize_MAX EXCEPT ![UsizeBits \div 16] = LimbBase - 2])

WrapSpec == WrapInit /\ [][SelectNext]_vars

\* C27: the index is always inside the list, and the call that observes the
\* counter at 0 after the wrap-around computes the cyclic successor of the
\* index of the call before it, which observed usize::MAX.
C27_WrapKeepsCyclicOrder ==
    \A k \in 1..Len(selection_log) :
        /\ selection_log[k].index < Len(upstreams)
        /\ (k > 1 /\ selection_log[k].observed = usize(0))
              => /\ selection_log[k - 1].observed = usize_MAX
                 /\ selection_log[k].index
                        = (selection_log[k - 1].index + 1) % Len(upstreams)

====
